---- MODULE Spec2Model ----
(***************************************************************************)
(* Model of the corky-telegram relay (src/src/main.rs): the ZMQ listener   *)
(* thread, the bounded event channel, the CTRL+C task, the central event   *)
(* loop of main, the frame decoder, the command router and the retried     *)
(* text / image delivery.                                                  *)
(***************************************************************************)
EXTENDS Integers, Sequences, FiniteSets, TLC

(***************************************************************************)
(* Bounds of the model.                                                    *)
(***************************************************************************)
\* capacity of the event channel; the program uses 256 (mpsc::channel(256)),
\* the model scales it down so that a full channel is reached
ChannelCapacity == 2
\* longest subscriber list of a routing table drawn by RouteInit
MaxSubs == 2
\* longest string, in characters, handed to truncate_str by TruncInit
MaxStrLen == 3

(***************************************************************************)
(* Program constants.                                                      *)
(***************************************************************************)
MAX_RETRIES == 3
BASE_DELAY_MS == 500
max_consecutive_errors == 10

(***************************************************************************)
(* Option<T>: None is the empty sequence, Some(v) the one-element one.     *)
(***************************************************************************)
None == <<>>
Some(v) == <<v>>
IsSome(o) == o # <<>>
Unwrap(o) == o[1]

(***************************************************************************)
(* serde_json::Value, as far as the decoder looks at it.                   *)
(***************************************************************************)
JNull == [t |-> "null"]
JNum(n) == [t |-> "number", n |-> n]
JStr(s) == [t |-> "string", s |-> s]
JArr(e) == [t |-> "array", elems |-> e]
JObj(f) == [t |-> "object", fields |-> f]

\* a frame is a byte vector; the model keeps what the decoder can learn of
\* it: whether it is UTF-8, whether the text parses as JSON, and the value
BadUtf8Frame == [utf8 |-> FALSE, parses |-> FALSE, json |-> JNull]
BadJsonFrame == [utf8 |-> TRUE, parses |-> FALSE, json |-> JNull]
JsonFrame(v) == [utf8 |-> TRUE, parses |-> TRUE, json |-> v]

\* Option<i64> field of ZmqMessage: absent or null is None
OptI64Ok(v) == v.t \in {"null", "number"}
OptI64(v) == IF v.t = "number" THEN Some(v.n) ELSE None
\* Option<String> field of ZmqMessage
OptStrOk(v) == v.t \in {"null", "string"}
OptStr(v) == IF v.t = "string" THEN Some(v.s) ELSE None

Field(f, name) == IF name \in DOMAIN f THEN f[name] ELSE JNull

\* #[derive(Deserialize)] struct ZmqMessage, from a JSON object or, as every
\* derived struct, from a JSON array of its fields in declaration order
ZmqMessageOk(v) ==
    CASE v.t = "object" ->
            /\ "text" \in DOMAIN v.fields
            /\ v.fields["text"].t = "string"
            /\ OptI64Ok(Field(v.fields, "chat_id"))
            /\ OptStrOk(Field(v.fields, "subscriber_list"))
            /\ OptStrOk(Field(v.fields, "image_path"))
      [] v.t = "array" ->
            /\ Len(v.elems) \in 3..4
            /\ OptI64Ok(v.elems[1])
            /\ OptStrOk(v.elems[2])
            /\ v.elems[3].t = "string"
            /\ Len(v.elems) = 4 => OptStrOk(v.elems[4])
      [] OTHER -> FALSE

ZmqMessage(v) ==
    IF v.t = "object"
    THEN [chat_id |-> OptI64(Field(v.fields, "chat_id")),
          subscriber_list |-> OptStr(Field(v.fields, "subscriber_list")),
          text |-> v.fields["text"].s,
          image_path |-> OptStr(Field(v.fields, "image_path"))]
    ELSE [chat_id |-> OptI64(v.elems[1]),
          subscriber_list |-> OptStr(v.elems[2]),
          text |-> v.elems[3].s,
          image_path |-> IF Len(v.elems) = 4 THEN OptStr(v.elems[4]) ELSE None]

\* a decoder that also takes a payload that is the bare command object
handle_zmq_frames_BareObject(frames) ==
    IF Len(frames) < 2 THEN None
    ELSE IF ~ frames[2].utf8 THEN None
    ELSE IF ~ frames[2].parses THEN None
    ELSE IF frames[2].json.t = "object"
    THEN IF ZmqMessageOk(frames[2].json) THEN Some(ZmqMessage(frames[2].json)) ELSE None
    ELSE IF frames[2].json.t # "array" THEN None
    ELSE IF Len(frames[2].json.elems) < 3 THEN None
    ELSE IF ~ ZmqMessageOk(frames[2].json.elems[3]) THEN None
    ELSE Some(ZmqMessage(frames[2].json.elems[3]))

\* a decoder that reads the command from arr[1]
handle_zmq_frames_Elem1(frames) ==
    IF Len(frames) < 2 THEN None
    ELSE IF ~ frames[2].utf8 THEN None
    ELSE IF ~ frames[2].parses THEN None
    ELSE IF frames[2].json.t # "array" THEN None
    ELSE IF Len(frames[2].json.elems) < 3 THEN None
    ELSE IF ~ ZmqMessageOk(frames[2].json.elems[2]) THEN None
    ELSE Some(ZmqMessage(frames[2].json.elems[2]))

\* the decoding part of handle_zmq_frames: Some(cmd) when process_zmq_message
\* is called with cmd, None when the message is logged and dropped
handle_zmq_frames(frames) ==
    IF Len(frames) < 2 THEN None
    ELSE IF ~ frames[2].utf8 THEN None
    ELSE IF ~ frames[2].parses THEN None
    ELSE IF frames[2].json.t # "array" THEN None
    ELSE IF Len(frames[2].json.elems) < 3 THEN None
    ELSE IF ~ ZmqMessageOk(frames[2].json.elems[3]) THEN None
    ELSE Some(ZmqMessage(frames[2].json.elems[3]))

(***************************************************************************)
(* Events of the central channel.                                          *)
(***************************************************************************)
Zmq(frames) == [type |-> "Zmq", frames |-> frames]
Shutdown == [type |-> "Shutdown", frames |-> <<>>]

(***************************************************************************)
(* Configuration: config::TelegramSettings.                                *)
(***************************************************************************)
OwnerChat == 9
DirectChat == 555
ImagePath == "/tmp/a.png"

\* a subscriber list of n chats, in an order that is not the numeric one
SubsOfLen(n) == [i \in 1..n |-> n + 1 - i]

TelegramSettings(n) ==
    [owner_chat_id |-> OwnerChat,
     subscriber_lists |-> [ops |-> SubsOfLen(n), dev |-> <<7>>]]

SettingsSet == {TelegramSettings(n) : n \in 0..MaxSubs}

(***************************************************************************)
(* Inputs: the multipart messages the transport can hand to the listener.  *)
(***************************************************************************)
IdentityFrame == BadJsonFrame

CmdFields(c, l, i) ==
    {"text"} \cup (IF IsSome(c) THEN {"chat_id"} ELSE {})
             \cup (IF IsSome(l) THEN {"subscriber_list"} ELSE {})
             \cup (IF IsSome(i) THEN {"image_path"} ELSE {})

CmdObject(c, l, text, i) ==
    JObj([k \in CmdFields(c, l, i) |->
            CASE k = "text" -> JStr(text)
              [] k = "chat_id" -> JNum(Unwrap(c))
              [] k = "subscriber_list" -> JStr(Unwrap(l))
              [] k = "image_path" -> JStr(Unwrap(i))])

Payload(obj) == JsonFrame(JArr(<<JStr("env0"), JStr("env1"), obj>>))

\* well-formed two-frame messages over every combination of the routing fields
RouteFrames ==
    {<<IdentityFrame, Payload(CmdObject(c, l, "hello", i))>> :
        c \in {None, Some(DirectChat)},
        l \in {None, Some("ops"), Some("nope")},
        i \in {None, Some(ImagePath)}}

\* what the listener receives in the whole-system specification: a message
\* of one frame, a text for the owner and a text with an image for the owner
RecvFrames ==
    {<<IdentityFrame>>,
     <<IdentityFrame, Payload(CmdObject(None, None, "hello", None))>>,
     <<IdentityFrame, Payload(CmdObject(None, None, "alert", Some(ImagePath)))>>}

(***************************************************************************)
(* Command router: the delivery calls process_zmq_message makes, in order. *)
(***************************************************************************)
Request(chat, text, image) == [chat |-> chat, text |-> text, image_path |-> image]

UnknownListText_NoName(list_name) == "Warning: unknown subscriber list"

UnknownListText(list_name) == "Warning: unknown subscriber list '" \o list_name \o "'"

\* variants of the router with a plausible slip each
process_zmq_message_ListFirst(c, st) ==
    IF IsSome(c.subscriber_list)
    THEN IF Unwrap(c.subscriber_list) \in DOMAIN st.subscriber_lists
         THEN LET subs == st.subscriber_lists[Unwrap(c.subscriber_list)]
              IN  [i \in 1..Len(subs) |-> Request(subs[i], c.text, c.image_path)]
         ELSE <<Request(st.owner_chat_id,
                        UnknownListText(Unwrap(c.subscriber_list)), None)>>
    ELSE IF IsSome(c.chat_id)
    THEN <<Request(Unwrap(c.chat_id), c.text, c.image_path)>>
    ELSE <<Request(st.owner_chat_id, c.text, c.image_path)>>

process_zmq_message_Reversed(c, st) ==
    IF IsSome(c.chat_id)
    THEN <<Request(Unwrap(c.chat_id), c.text, c.image_path)>>
    ELSE IF IsSome(c.subscriber_list)
    THEN IF Unwrap(c.subscriber_list) \in DOMAIN st.subscriber_lists
         THEN LET subs == st.subscriber_lists[Unwrap(c.subscriber_list)]
              IN  [i \in 1..Len(subs) |->
                     Request(subs[Len(subs) + 1 - i], c.text, c.image_path)]
         ELSE <<Request(st.owner_chat_id,
                        UnknownListText(Unwrap(c.subscriber_list)), None)>>
    ELSE <<Request(st.owner_chat_id, c.text, c.image_path)>>

process_zmq_message_DropFallback(c, st) ==
    IF IsSome(c.chat_id)
    THEN <<Request(Unwrap(c.chat_id), c.text, c.image_path)>>
    ELSE IF IsSome(c.subscriber_list)
    THEN IF Unwrap(c.subscriber_list) \in DOMAIN st.subscriber_lists
         THEN LET subs == st.subscriber_lists[Unwrap(c.subscriber_list)]
              IN  [i \in 1..Len(subs) |-> Request(subs[i], c.text, c.image_path)]
         ELSE <<Request(st.owner_chat_id,
                        UnknownListText(Unwrap(c.subscriber_list)), None)>>
    ELSE <<>>

process_zmq_message_TextOnlyFanout(c, st) ==
    IF IsSome(c.chat_id)
    THEN <<Request(Unwrap(c.chat_id), c.text, c.image_path)>>
    ELSE IF IsSome(c.subscriber_list)
    THEN IF Unwrap(c.subscriber_list) \in DOMAIN st.subscriber_lists
         THEN LET subs == st.subscriber_lists[Unwrap(c.subscriber_list)]
              IN  [i \in 1..Len(subs) |-> Request(subs[i], c.text, None)]
         ELSE <<Request(st.owner_chat_id,
                        UnknownListText(Unwrap(c.subscriber_list)), None)>>
    ELSE <<Request(st.owner_chat_id, c.text, c.image_path)>>

process_zmq_message(c, st) ==
    IF IsSome(c.chat_id)
    THEN <<Request(Unwrap(c.chat_id), c.text, c.image_path)>>
    ELSE IF IsSome(c.subscriber_list)
    THEN IF Unwrap(c.subscriber_list) \in DOMAIN st.subscriber_lists
         THEN LET subs == st.subscriber_lists[Unwrap(c.subscriber_list)]
              IN  [i \in 1..Len(subs) |-> Request(subs[i], c.text, c.image_path)]
         ELSE <<Request(st.owner_chat_id,
                        UnknownListText(Unwrap(c.subscriber_list)), None)>>
    ELSE <<Request(st.owner_chat_id, c.text, c.image_path)>>

(***************************************************************************)
(* State.                                                                  *)
(***************************************************************************)
VARIABLES
    settings,            \* the loaded configuration (never changes)
    chan,                \* the events queued in the central channel
    shutdown_flag,       \* the AtomicBool shared with the listener thread
    lpc,                 \* position of the listener thread
    consecutive_errors,  \* the listener's health counter
    lframes,             \* the frames the listener is publishing
    cpc,                 \* position of the CTRL+C task
    mpc,                 \* position of main (event loop and deliveries)
    cmd,                 \* the command of the event being handled
    todo,                \* delivery calls process_zmq_message has still to make
    requests,            \* delivery calls made for the event being handled
    log,                 \* what the current delivery call did so far
    attempt,             \* loop variable of the running retry loop
    ttext,               \* text argument of the running send_to_chat_with_retry
    last_poll,           \* how the listener's last zmq::poll / recv_multipart ended
    trunc                \* a truncate_str call: its arguments and its results

vars == <<settings, chan, shutdown_flag, lpc, consecutive_errors, lframes, cpc,
          mpc, cmd, todo, requests, log, attempt, ttext, last_poll, trunc>>

listenerVars == <<lpc, consecutive_errors, lframes, last_poll>>
deliveryVars == <<cmd, todo, requests, log, attempt, ttext>>

\* no truncate_str call under way
NoTruncation == [chars |-> <<>>, s |-> <<>>, max_chars |-> 0, out |-> <<>>]

\* the delivery call in progress
req == requests[Len(requests)]

Init ==
    /\ settings = TelegramSettings(1)
    /\ chan = <<>>
    /\ shutdown_flag = FALSE
    /\ lpc = "outer"
    /\ consecutive_errors = 0
    /\ lframes = <<>>
    /\ cpc = "wait"
    /\ mpc = "recv"
    /\ cmd = None
    /\ todo = <<>>
    /\ requests = <<>>
    /\ log = <<>>
    /\ attempt = 0
    /\ ttext = ""
    /\ last_poll = "none"
    /\ trunc = NoTruncation

\* one queued message, the listener idle in its polling loop
RouteInit ==
    /\ settings \in SettingsSet
    /\ \E f \in RouteFrames : chan = <<Zmq(f)>>
    /\ shutdown_flag = FALSE
    /\ lpc = "inner"
    /\ consecutive_errors = 0
    /\ lframes = <<>>
    /\ cpc = "wait"
    /\ mpc = "recv"
    /\ cmd = None
    /\ todo = <<>>
    /\ requests = <<>>
    /\ log = <<>>
    /\ attempt = 0
    /\ ttext = ""
    /\ last_poll = "none"
    /\ trunc = NoTruncation

(***************************************************************************)
(* What a delivery call does: the calls to the platform client, the file   *)
(* test and the backoff sleeps, in the order they happen.                  *)
(***************************************************************************)
Entry(op, chat, text, image, res, ms) ==
    [op |-> op, chat |-> chat, text |-> text, image |-> image, res |-> res, ms |-> ms]

SendResults == {"ok", "err", "timeout"}

Backoff_Constant(a) == BASE_DELAY_MS

\* delay of the retry after the failed attempt number a (zero-indexed)
Backoff(a) == BASE_DELAY_MS * (2 ^ a)

\* text of the fallback after the last image attempt failed
FallbackText(text, image_path) ==
    text \o " (Image attachment failed: " \o image_path \o ")"

\* send_to_chat_with_retry that backs off after a timeout as after an error
TextStep_SleepOnTimeout(res, a) ==
    CASE res = "ok" -> "return"
      [] OTHER -> IF a < MAX_RETRIES - 1 THEN "sleep" ELSE "give_up"

\* what send_to_chat_with_retry does after attempt a ended with res: return
\* on success, sleep after a send error, go straight to the next attempt after
\* a timeout, and give up after the last attempt
TextStep(res, a) ==
    CASE res = "ok" -> "return"
      [] res = "err" -> IF a < MAX_RETRIES - 1 THEN "sleep" ELSE "give_up"
      [] OTHER -> IF a < MAX_RETRIES - 1 THEN "retry" ELSE "give_up"

\* send_to_chat_with_image_retry without the `return` of its success arm
ImageStep_NoReturn(res, a) ==
    CASE res = "ok" -> IF a < MAX_RETRIES - 1 THEN "retry" ELSE "return"
      [] res = "err" -> IF a < MAX_RETRIES - 1 THEN "sleep" ELSE "fallback"
      [] OTHER -> IF a < MAX_RETRIES - 1 THEN "retry" ELSE "fallback"

\* an image loop that gives the image up after its first failed attempt
ImageStep_FallbackEarly(res, a) ==
    CASE res = "ok" -> "return"
      [] OTHER -> "fallback"

\* the same for send_to_chat_with_image_retry, whose last failed attempt
\* calls send_to_chat_with_retry
ImageStep(res, a) ==
    CASE res = "ok" -> "return"
      [] res = "err" -> IF a < MAX_RETRIES - 1 THEN "sleep" ELSE "fallback"
      [] OTHER -> IF a < MAX_RETRIES - 1 THEN "retry" ELSE "fallback"

\* the delivery call returns to process_zmq_message
Return(result, entry) ==
    /\ mpc' = "route"
    /\ requests' = [requests EXCEPT ![Len(requests)].result = result]
    /\ log' = Append(log, entry)
    /\ UNCHANGED <<cmd, todo, attempt, ttext>>

(***************************************************************************)
(* main: the central event loop.                                           *)
(***************************************************************************)
\* an event loop that ends on whatever event it takes
BreaksLoop_AnyEvent(ev) == TRUE

\* an event loop that no event ends
BreaksLoop_Never(ev) == FALSE

\* the match arm of the event loop that ends in `break`
BreaksLoop(ev) == ev.type = "Shutdown"

\* rx.recv() returns an event: a Shutdown breaks the loop, a Zmq event is
\* decoded by handle_zmq_frames and, when that succeeds, routed
M_Recv ==
    /\ mpc = "recv"
    /\ chan # <<>>
    /\ chan' = Tail(chan)
    /\ IF BreaksLoop(Head(chan))
       THEN /\ mpc' = "exited"
            /\ UNCHANGED deliveryVars
       ELSE LET c == handle_zmq_frames(Head(chan).frames) IN
            /\ cmd' = c
            /\ UNCHANGED <<requests, log, attempt, ttext>>
            /\ IF IsSome(c)
               THEN /\ todo' = process_zmq_message(Unwrap(c), settings)
                    /\ mpc' = "route"
               ELSE /\ todo' = <<>>
                    /\ mpc' = "recv"
    /\ UNCHANGED <<trunc, settings, shutdown_flag, listenerVars, cpc>>

\* process_zmq_message makes its next delivery call, or returns to the loop
\* (its locals are gone then)
M_Route ==
    /\ mpc = "route"
    /\ IF todo = <<>>
       THEN /\ mpc' = "recv"
            /\ cmd' = None
            /\ requests' = <<>>
            /\ log' = <<>>
            /\ attempt' = 0
            /\ ttext' = ""
            /\ UNCHANGED todo
       ELSE /\ requests' = Append(requests,
                                  Head(todo) @@ [result |-> "running"])
            /\ todo' = Tail(todo)
            /\ log' = <<>>
            /\ attempt' = 0
            /\ IF IsSome(Head(todo).image_path)
               THEN /\ mpc' = "img_exists"
                    /\ ttext' = ""
               ELSE /\ mpc' = "txt_send"
                    /\ ttext' = Head(todo).text
            /\ UNCHANGED cmd
    /\ UNCHANGED <<trunc, settings, chan, shutdown_flag, listenerVars, cpc>>

\* an image path that tries to send the photo although the file is missing
ExistsStep_IgnoreMissing(exists) == "img_send"

\* where send_to_chat_with_image_retry goes after path.exists()
ExistsStep(exists) == IF exists THEN "img_send" ELSE "txt_send"

\* a missing file reported like a failed attachment
MissingFileText_Augmented(text, image_path) == FallbackText(text, image_path)

\* text of the fallback when the image file is missing: the text as it came
MissingFileText(text, image_path) == text

\* send_to_chat_with_image_retry: path.exists()
M_CheckImage ==
    /\ mpc = "img_exists"
    /\ \E exists \in BOOLEAN :
          /\ log' = Append(log, Entry("exists", req.chat, req.text,
                                      Unwrap(req.image_path),
                                      IF exists THEN "yes" ELSE "no", 0))
          /\ mpc' = ExistsStep(exists)
          /\ ttext' = IF exists THEN ttext
                      ELSE MissingFileText(req.text, Unwrap(req.image_path))
    /\ attempt' = 0
    /\ UNCHANGED <<cmd, todo, requests>>
    /\ UNCHANGED <<trunc, settings, chan, shutdown_flag, listenerVars, cpc>>

\* send_to_chat_with_image_retry: one send_photo under its 60 s timeout
M_SendPhoto ==
    /\ mpc = "img_send"
    /\ \E res \in SendResults :
          LET e == Entry("send_photo", req.chat, req.text,
                         Unwrap(req.image_path), res, 0)
              step == ImageStep(res, attempt)
          IN  CASE step = "return" -> Return("sent", e)
                [] step = "sleep" ->
                      /\ log' = Append(log, e)
                      /\ mpc' = "img_sleep"
                      /\ UNCHANGED <<cmd, todo, requests, attempt, ttext>>
                [] step = "retry" ->
                      /\ log' = Append(log, e)
                      /\ attempt' = attempt + 1
                      /\ UNCHANGED <<mpc, cmd, todo, requests, ttext>>
                [] step = "fallback" ->
                      /\ log' = Append(log, e)
                      /\ mpc' = "txt_send"
                      /\ attempt' = 0
                      /\ ttext' = FallbackText(req.text, Unwrap(req.image_path))
                      /\ UNCHANGED <<cmd, todo, requests>>
    /\ UNCHANGED <<trunc, settings, chan, shutdown_flag, listenerVars, cpc>>

\* send_to_chat_with_image_retry: the backoff sleep after a send error
M_ImageSleep ==
    /\ mpc = "img_sleep"
    /\ log' = Append(log, Entry("sleep", req.chat, "", "", "slept", Backoff(attempt)))
    /\ attempt' = attempt + 1
    /\ mpc' = "img_send"
    /\ UNCHANGED <<cmd, todo, requests, ttext>>
    /\ UNCHANGED <<trunc, settings, chan, shutdown_flag, listenerVars, cpc>>

\* send_to_chat_with_retry: one send_message under its 30 s timeout
M_SendText ==
    /\ mpc = "txt_send"
    /\ \E res \in SendResults :
          LET e == Entry("send_message", req.chat, ttext, "", res, 0)
              step == TextStep(res, attempt)
          IN  CASE step = "return" -> Return("sent", e)
                [] step = "sleep" ->
                      /\ log' = Append(log, e)
                      /\ mpc' = "txt_sleep"
                      /\ UNCHANGED <<cmd, todo, requests, attempt, ttext>>
                [] step = "retry" ->
                      /\ log' = Append(log, e)
                      /\ attempt' = attempt + 1
                      /\ UNCHANGED <<mpc, cmd, todo, requests, ttext>>
                [] step = "give_up" -> Return("failed", e)
    /\ UNCHANGED <<trunc, settings, chan, shutdown_flag, listenerVars, cpc>>

\* send_to_chat_with_retry: the backoff sleep after a send error
M_TextSleep ==
    /\ mpc = "txt_sleep"
    /\ log' = Append(log, Entry("sleep", req.chat, "", "", "slept", Backoff(attempt)))
    /\ attempt' = attempt + 1
    /\ mpc' = "txt_send"
    /\ UNCHANGED <<cmd, todo, requests, ttext>>
    /\ UNCHANGED <<trunc, settings, chan, shutdown_flag, listenerVars, cpc>>

\* after the loop: shutdown_flag.store(true)
M_StoreFlag ==
    /\ mpc = "exited"
    /\ shutdown_flag' = TRUE
    /\ mpc' = "join"
    /\ UNCHANGED <<trunc, settings, chan, listenerVars, cpc, deliveryVars>>

\* zmq_handle.join() returns once the listener thread has ended
M_Join ==
    /\ mpc = "join"
    /\ lpc = "stopped"
    /\ mpc' = "done"
    /\ UNCHANGED <<trunc, settings, chan, shutdown_flag, listenerVars, cpc, deliveryVars>>

(***************************************************************************)
(* The ZMQ listener thread.                                                *)
(***************************************************************************)
\* the receiver half of the channel lives until main returns
RxClosed == mpc = "done"

SetupResults == {"ok", "socket_err", "identity_err", "connect_err"}
PollResults == {"timeout", "received", "recv_err", "poll_err"}

\* a setup that ends the thread when connect fails
SetupStep_ConnectFatal(r) ==
    CASE r = "ok" -> "inner"
      [] r = "connect_err" -> "stopped"
      [] OTHER -> "setup_sleep"

\* where the listener goes after the setup: into the polling loop, or to
\* the 5 s sleep before `continue`
SetupStep(r) == IF r = "ok" THEN "inner" ELSE "setup_sleep"

\* the inner loop goes on one poll too long
PollingContinues_OffByOne(errors, stop) ==
    errors <= max_consecutive_errors /\ ~ stop

\* condition of the inner polling loop
PollingContinues(errors, stop) ==
    errors < max_consecutive_errors /\ ~ stop

\* a channel that always has room
HasRoom_Always(q) == TRUE

\* mpsc::channel(capacity): a send goes through when a slot is free
HasRoom(q) == Len(q) < ChannelCapacity

\* a sender that puts its event in front of the queued ones
Enqueue_Front(q, ev) == <<ev>> \o q

\* tx.send / tx.blocking_send: the event goes behind the queued ones
Enqueue(q, ev) == Append(q, ev)

\* top of the outer loop: the flag test, then context, socket, identity and
\* connect; any setup failure sleeps 5 s and starts over
L_Connect ==
    /\ lpc = "outer"
    /\ IF shutdown_flag
       THEN lpc' = "stopped" /\ UNCHANGED <<consecutive_errors, last_poll>>
       ELSE \E r \in SetupResults :
               /\ lpc' = SetupStep(r)
               /\ IF r = "ok"
                  THEN consecutive_errors' = 0 /\ last_poll' = "none"
                  ELSE UNCHANGED <<consecutive_errors, last_poll>>
    /\ UNCHANGED <<trunc, settings, chan, shutdown_flag, lframes, cpc, mpc, deliveryVars>>

\* thread::sleep(5 s) after a setup failure, then `continue`
L_SetupSleep ==
    /\ lpc = "setup_sleep"
    /\ lpc' = "outer"
    /\ UNCHANGED <<trunc, settings, chan, shutdown_flag, consecutive_errors, lframes,
                   last_poll, cpc, mpc, deliveryVars>>

\* the inner loop: its condition, then one zmq::poll and, when the socket is
\* readable, one recv_multipart
L_Poll ==
    /\ lpc = "inner"
    /\ IF PollingContinues(consecutive_errors, shutdown_flag)
       THEN \E r \in PollResults :
               /\ last_poll' = r
               /\ CASE r = "timeout" ->
                         UNCHANGED <<lpc, consecutive_errors, lframes>>
                    [] r = "received" ->
                         /\ \E f \in RecvFrames : lframes' = f
                         /\ lpc' = "publish"
                         /\ UNCHANGED consecutive_errors
                    [] OTHER ->
                         /\ consecutive_errors' = consecutive_errors + 1
                         /\ UNCHANGED <<lpc, lframes>>
       ELSE lpc' = "after_inner" /\ UNCHANGED <<consecutive_errors, lframes, last_poll>>
    /\ UNCHANGED <<trunc, settings, chan, shutdown_flag, cpc, mpc, deliveryVars>>

\* tx.blocking_send(Event::Zmq(frames)): waits for room in the channel, fails
\* only when the receiver is gone
L_Publish ==
    /\ lpc = "publish"
    /\ IF RxClosed
       THEN /\ lpc' = "stopped"
            /\ UNCHANGED <<chan, consecutive_errors>>
       ELSE /\ HasRoom(chan)
            /\ chan' = Enqueue(chan, Zmq(lframes))
            /\ consecutive_errors' = 0
            /\ lpc' = "inner"
    /\ lframes' = <<>>
    /\ UNCHANGED <<trunc, settings, shutdown_flag, last_poll, cpc, mpc, deliveryVars>>

\* a listener that reconnects after the inner loop whatever the flag says
AfterInnerStep_AlwaysReconnect(stop) == "reconnect_sleep"

\* `if shutdown.load(..) { break; }` after the inner loop, else the teardown
AfterInnerStep(stop) == IF stop THEN "stopped" ELSE "reconnect_sleep"

\* after the inner loop: the flag test that breaks the outer loop
L_AfterInner ==
    /\ lpc = "after_inner"
    /\ lpc' = AfterInnerStep(shutdown_flag)
    /\ UNCHANGED <<trunc, settings, chan, shutdown_flag, consecutive_errors, lframes,
                   last_poll, cpc, mpc, deliveryVars>>

\* disconnect, drop socket and context, thread::sleep(5 s)
L_ReconnectSleep ==
    /\ lpc = "reconnect_sleep"
    /\ lpc' = "outer"
    /\ UNCHANGED <<trunc, settings, chan, shutdown_flag, consecutive_errors, lframes,
                   last_poll, cpc, mpc, deliveryVars>>

(***************************************************************************)
(* The CTRL+C task.                                                        *)
(***************************************************************************)
\* signal::ctrl_c() resolves
C_Signal ==
    /\ cpc = "wait"
    /\ cpc' = "send"
    /\ UNCHANGED <<trunc, settings, chan, shutdown_flag, listenerVars, mpc, deliveryVars>>

\* a CTRL+C task that sets the flag itself
CtrlCFlag_Sets(flag) == TRUE

\* what the CTRL+C task does to the flag: it has no handle on it
CtrlCFlag(flag) == flag

\* tx.send(Event::Shutdown): waits for room in the channel
C_Send ==
    /\ cpc = "send"
    /\ IF RxClosed
       THEN UNCHANGED chan
       ELSE /\ HasRoom(chan)
            /\ chan' = Enqueue(chan, Shutdown)
    /\ cpc' = "done"
    /\ shutdown_flag' = CtrlCFlag(shutdown_flag)
    /\ UNCHANGED <<trunc, settings, listenerVars, mpc, deliveryVars>>

(***************************************************************************)
(* truncate_str, on strings as Rust has them: UTF-8 byte sequences.        *)
(***************************************************************************)
\* the UTF-8 encodings of 'a', U+00E9, U+4F60 and U+1F600
TruncChars == {<<97>>, <<195, 169>>, <<228, 189, 160>>, <<240, 159, 152, 128>>}

\* the strings of at most n characters, as sequences of characters
StringsUpTo(n) == UNION {[1..k -> TruncChars] : k \in 0..n}

\* the bytes of a string given by its characters
RECURSIVE Utf8(_)
Utf8(cs) == IF cs = <<>> THEN <<>> ELSE Head(cs) \o Utf8(Tail(cs))

\* number of bytes of the character that starts with the byte lead
Utf8Width(lead) ==
    IF lead < 128 THEN 1 ELSE IF lead < 224 THEN 2 ELSE IF lead < 240 THEN 3 ELSE 4

\* str::char_indices: the byte offsets at which the characters start
RECURSIVE CharIndicesFrom(_, _)
CharIndicesFrom(b, off) ==
    IF off >= Len(b) THEN <<>>
    ELSE <<off>> \o CharIndicesFrom(b, off + Utf8Width(b[off + 1]))

char_indices(b) == CharIndicesFrom(b, 0)

\* a truncation that counts bytes instead of characters
truncate_str_Bytes(b, max_chars) ==
    IF Len(b) > max_chars THEN SubSeq(b, 1, max_chars) ELSE b

\* truncate_str: the slice up to the byte offset of character number
\* max_chars (zero-indexed), or the whole string when there is none
truncate_str(b, max_chars) ==
    IF Len(char_indices(b)) > max_chars
    THEN SubSeq(b, 1, char_indices(b)[max_chars + 1])
    ELSE b

\* truncate_str is applied to its argument, then to its own result
T_Truncate ==
    /\ Len(trunc.out) < 2
    /\ trunc' = [trunc EXCEPT !.out =
                    Append(@, truncate_str(IF @ = <<>> THEN trunc.s ELSE @[Len(@)],
                                           trunc.max_chars))]
    /\ UNCHANGED <<settings, chan, shutdown_flag, listenerVars, cpc, mpc, deliveryVars>>

(***************************************************************************)
(* Specifications.                                                         *)
(***************************************************************************)
MainNext ==
    \/ M_Recv
    \/ M_Route
    \/ M_CheckImage
    \/ M_SendPhoto
    \/ M_ImageSleep
    \/ M_SendText
    \/ M_TextSleep
    \/ M_StoreFlag
    \/ M_Join

ListenerNext ==
    \/ L_Connect
    \/ L_SetupSleep
    \/ L_Poll
    \/ L_Publish
    \/ L_AfterInner
    \/ L_ReconnectSleep

CtrlCNext ==
    \/ C_Signal
    \/ C_Send

Next == MainNext \/ ListenerNext \/ CtrlCNext

\* the whole relay
Spec == Init /\ [][Next]_vars

\* the whole relay under fair scheduling: every send, sleep, poll and connect
\* returns, and a thread that can run does run; the signal may never come
FairSpec == Spec /\ WF_vars(MainNext) /\ WF_vars(ListenerNext) /\ WF_vars(C_Send)

\* decoding, routing and delivery of one queued message
RouteNext ==
    \/ M_Recv
    \/ M_Route
    \/ M_CheckImage
    \/ M_SendPhoto
    \/ M_ImageSleep
    \/ M_SendText
    \/ M_TextSleep

RouteSpec == RouteInit /\ [][RouteNext]_vars

(***************************************************************************)
(* Two queued messages: one of every kind the decoder tells apart, and a   *)
(* text for the chat whose id is the number of that kind.                  *)
(***************************************************************************)
HelloObject == CmdObject(None, None, "hello", None)
FullObject == CmdObject(Some(DirectChat), Some("ops"), "hello", Some(ImagePath))

DecodeCases ==
    << \* dropped by the decoder
       <<IdentityFrame>>,
       <<IdentityFrame, BadUtf8Frame>>,
       <<IdentityFrame, BadJsonFrame>>,
       <<IdentityFrame, JsonFrame(HelloObject)>>,
       <<IdentityFrame, JsonFrame(JArr(<<JStr("env0"), HelloObject>>))>>,
       <<IdentityFrame, Payload(JObj([chat_id |-> JNum(DirectChat)]))>>,
       \* decoded
       <<IdentityFrame, Payload(HelloObject)>>,
       <<BadUtf8Frame, JsonFrame(JArr(<<JNull, JNum(1), HelloObject, JStr("x")>>)),
         BadUtf8Frame>>,
       <<IdentityFrame, Payload(FullObject)>>,
       <<BadUtf8Frame, JsonFrame(JArr(<<JNum(0), FullObject, FullObject, JNull>>)),
         BadJsonFrame>>,
       <<IdentityFrame,
         Payload(JObj([text |-> JStr("hello"), chat_id |-> JNull,
                       subscriber_list |-> JNull, image_path |-> JNull]))>>,
       <<IdentityFrame, Payload(CmdObject(None, None, "hello", Some(ImagePath)))>> >>

FollowUp(k) == <<IdentityFrame, Payload(CmdObject(Some(k), None, "next", None))>>

DecodeInit ==
    /\ settings = TelegramSettings(1)
    /\ \E k \in DOMAIN DecodeCases : chan = <<Zmq(DecodeCases[k]), Zmq(FollowUp(k))>>
    /\ shutdown_flag = FALSE
    /\ lpc = "inner"
    /\ consecutive_errors = 0
    /\ lframes = <<>>
    /\ cpc = "wait"
    /\ mpc = "recv"
    /\ cmd = None
    /\ todo = <<>>
    /\ requests = <<>>
    /\ log = <<>>
    /\ attempt = 0
    /\ ttext = ""
    /\ last_poll = "none"
    /\ trunc = NoTruncation

\* decoding, routing and delivery of two queued messages
DecodeSpec == DecodeInit /\ [][RouteNext]_vars

(***************************************************************************)
(* Calls of truncate_str on every string of at most MaxStrLen characters   *)
(* with every limit up to one more than that.                              *)
(***************************************************************************)
TruncInit ==
    /\ settings = TelegramSettings(1)
    /\ chan = <<>>
    /\ shutdown_flag = FALSE
    /\ lpc = "outer"
    /\ consecutive_errors = 0
    /\ lframes = <<>>
    /\ cpc = "wait"
    /\ mpc = "recv"
    /\ cmd = None
    /\ todo = <<>>
    /\ requests = <<>>
    /\ log = <<>>
    /\ attempt = 0
    /\ ttext = ""
    /\ last_poll = "none"
    /\ \E cs \in StringsUpTo(MaxStrLen), n \in 0..(MaxStrLen + 1) :
          trunc = [chars |-> cs, s |-> Utf8(cs), max_chars |-> n, out |-> <<>>]

TruncNext == T_Truncate

TruncSpec == TruncInit /\ [][TruncNext]_vars

TypeOK ==
    /\ Len(chan) <= ChannelCapacity
    /\ shutdown_flag \in BOOLEAN
    /\ consecutive_errors \in 0..max_consecutive_errors
    /\ attempt \in 0..(MAX_RETRIES - 1)

(***************************************************************************)
(* Vocabulary of the properties.                                           *)
(***************************************************************************)
LoopExited == mpc \in {"exited", "join", "done"}

\* the command being handled, once handle_zmq_frames has decoded it
Handling == IsSome(cmd)
TheCmd == Unwrap(cmd)

\* the delivery calls of the event being handled: made, then still to make
AllRequests == [i \in 1..Len(requests) |->
                   Request(requests[i].chat, requests[i].text, requests[i].image_path)]
               \o todo

IsSend(e) == e.op \in {"send_message", "send_photo"}
SendIdx == {i \in DOMAIN log : IsSend(log[i])}

\* the part of the log written by send_to_chat_with_retry
TextIdx == {i \in DOMAIN log : log[i].op = "send_message"}
TextStart == IF TextIdx = {} THEN Len(log) + 1
             ELSE CHOOSE i \in TextIdx : \A j \in TextIdx : i <= j
TextLog == SubSeq(log, TextStart, Len(log))
\* number of send_message attempts among the first i entries of TextLog
TextAttemptsUpTo(i) == Cardinality({j \in 1..i : TextLog[j].op = "send_message"})

IsPrefix(a, b) == Len(a) <= Len(b) /\ SubSeq(b, 1, Len(a)) = a

(***************************************************************************)
(* C1: whenever the dispatch loop has exited on a Shutdown event, the      *)
(* listener thread eventually terminates and the join of main returns,     *)
(* under fair scheduling (FairSpec).                                       *)
(***************************************************************************)
C1_ShutdownCompletes == (mpc = "exited") ~> (lpc = "stopped" /\ mpc = "done")

(***************************************************************************)
(* C2: dequeuing a Shutdown event leaves the loop at once, and after the   *)
(* loop has exited nothing is dequeued, decoded, routed or sent any more:  *)
(* the channel only grows and the delivery state never changes.            *)
(***************************************************************************)
C2_ShutdownDrainsNothing ==
    [][ /\ (mpc = "recv" /\ chan # <<>> /\ Head(chan) = Shutdown /\ chan' = Tail(chan))
            => (mpc' = "exited" /\ UNCHANGED deliveryVars)
        /\ LoopExited
            => (LoopExited' /\ IsPrefix(chan, chan') /\ UNCHANGED deliveryVars)
      ]_vars

\* the loop has exited and a well-formed batch is left in the channel
C2_Witness ==
    /\ mpc = "done"
    /\ \E i \in DOMAIN chan : chan[i].type = "Zmq" /\ Len(chan[i].frames) = 2

(***************************************************************************)
(* C3: a command with a chat_id is delivered to that chat and to no other  *)
(* destination: exactly one delivery call, every send and sleep of it for  *)
(* that chat, whatever subscriber_list says.                               *)
(***************************************************************************)
C3_DirectIdOnly ==
    (Handling /\ IsSome(TheCmd.chat_id)) =>
        /\ Len(AllRequests) = 1
        /\ AllRequests[1].chat = Unwrap(TheCmd.chat_id)
        /\ AllRequests[1].text = TheCmd.text
        /\ \A i \in DOMAIN log : log[i].chat = Unwrap(TheCmd.chat_id)

\* a command with both a chat_id and a list of the table was delivered
C3_Witness ==
    /\ Handling
    /\ TheCmd.chat_id = Some(DirectChat)
    /\ TheCmd.subscriber_list = Some("ops")
    /\ settings.subscriber_lists["ops"] # <<>>
    /\ mpc = "route" /\ todo = <<>>
    /\ \E i \in DOMAIN log : log[i].op = "send_message" /\ log[i].res = "ok"

(***************************************************************************)
(* C4: a command without chat_id and with a list of the table is delivered *)
(* once per chat of the list, in the table's order, with the original      *)
(* text, one destination after the other (a delivery has returned before   *)
(* the next one starts, and everything logged belongs to the running one), *)
(* each with a full budget: a text delivery gives up only after            *)
(* MAX_RETRIES attempts of its own.                                        *)
(***************************************************************************)
C4_FanOut ==
    (/\ Handling
     /\ ~ IsSome(TheCmd.chat_id)
     /\ IsSome(TheCmd.subscriber_list)
     /\ Unwrap(TheCmd.subscriber_list) \in DOMAIN settings.subscriber_lists) =>
        LET subs == settings.subscriber_lists[Unwrap(TheCmd.subscriber_list)] IN
        /\ Len(AllRequests) = Len(subs)
        /\ \A i \in DOMAIN subs :
              /\ AllRequests[i].chat = subs[i]
              /\ AllRequests[i].text = TheCmd.text
        /\ \A i \in 1..(Len(requests) - 1) : requests[i].result \in {"sent", "failed"}
        /\ \A i \in DOMAIN log : log[i].chat = req.chat
        /\ (requests # <<>> /\ req.result = "failed")
              => Cardinality(TextIdx) = MAX_RETRIES
        /\ (requests # <<>> /\ req.result = "running" /\ log = <<>>) => attempt = 0

\* the first of two destinations exhausted its retries, the second was served
C4_Witness ==
    /\ Handling
    /\ ~ IsSome(TheCmd.chat_id)
    /\ TheCmd.subscriber_list = Some("ops")
    /\ Len(settings.subscriber_lists["ops"]) >= 2
    /\ Len(requests) = 2
    /\ requests[1].result = "failed"
    /\ requests[2].result = "sent"
    /\ Cardinality(TextIdx) = MAX_RETRIES

(***************************************************************************)
(* C5: a command without chat_id whose list is not in the table causes     *)
(* exactly one delivery call, to the owner, with the text                  *)
(* "Warning: unknown subscriber list '<name>'"; nothing is sent to anybody *)
(* else and the original text is sent to nobody.                           *)
(***************************************************************************)
C5_UnknownList ==
    (/\ Handling
     /\ ~ IsSome(TheCmd.chat_id)
     /\ TheCmd.subscriber_list = Some("nope")) =>
        /\ Len(AllRequests) = 1
        /\ AllRequests[1].chat = settings.owner_chat_id
        /\ AllRequests[1].text = "Warning: unknown subscriber list 'nope'"
        /\ \A i \in DOMAIN log :
              /\ log[i].chat = settings.owner_chat_id
              /\ IsSend(log[i]) =>
                    /\ log[i].op = "send_message"
                    /\ log[i].text = "Warning: unknown subscriber list 'nope'"
                    /\ log[i].text # TheCmd.text

\* the diagnostic for the unknown list was sent
C5_Witness ==
    /\ Handling
    /\ ~ IsSome(TheCmd.chat_id)
    /\ TheCmd.subscriber_list = Some("nope")
    /\ mpc = "route" /\ todo = <<>>
    /\ Len(requests) = 1 /\ req.result = "sent"

(***************************************************************************)
(* C6: a command with neither chat_id nor subscriber_list causes exactly   *)
(* one delivery call, to the owner, with the original text.                *)
(***************************************************************************)
C6_OwnerFallback ==
    (/\ Handling
     /\ ~ IsSome(TheCmd.chat_id)
     /\ ~ IsSome(TheCmd.subscriber_list)) =>
        /\ Len(AllRequests) = 1
        /\ AllRequests[1].chat = settings.owner_chat_id
        /\ AllRequests[1].text = TheCmd.text
        /\ \A i \in DOMAIN log : log[i].chat = settings.owner_chat_id
        /\ (~ IsSome(TheCmd.image_path)) =>
              \A i \in DOMAIN log : IsSend(log[i]) => log[i].text = TheCmd.text

\* the text of a command without destination was sent to the owner
C6_Witness ==
    /\ Handling
    /\ ~ IsSome(TheCmd.chat_id)
    /\ ~ IsSome(TheCmd.subscriber_list)
    /\ ~ IsSome(TheCmd.image_path)
    /\ mpc = "route" /\ todo = <<>>
    /\ Len(log) = 1 /\ log[1].op = "send_message" /\ log[1].res = "ok"
    /\ log[1].chat = OwnerChat /\ log[1].text = "hello"

(***************************************************************************)
(* C7: every delivery call the router makes carries the image_path of the  *)
(* command unchanged, under each of the four routing rules.                *)
(***************************************************************************)
C7_ImagePathCarried ==
    Handling =>
        \A i \in DOMAIN AllRequests : AllRequests[i].image_path = TheCmd.image_path

\* C7 as the code has it: the delivery calls for a chat_id, for the chats of a
\* known list and for the owner fallback carry the image_path of the command
\* and, when it is set, go through send_to_chat_with_image_retry with that
\* path; the diagnostic for an unknown list is a text without image
C7_ImagePathCarriedButDiagnostic ==
    Handling =>
        LET diagnostic ==
                /\ ~ IsSome(TheCmd.chat_id)
                /\ IsSome(TheCmd.subscriber_list)
                /\ Unwrap(TheCmd.subscriber_list) \notin DOMAIN settings.subscriber_lists
        IN  /\ \A i \in DOMAIN AllRequests :
                  AllRequests[i].image_path =
                      IF diagnostic THEN None ELSE TheCmd.image_path
            /\ (~ diagnostic /\ IsSome(TheCmd.image_path) /\ log # <<>>) =>
                  /\ log[1].op = "exists"
                  /\ \A i \in DOMAIN log :
                        log[i].op \in {"exists", "send_photo"} =>
                            /\ log[i].image = Unwrap(TheCmd.image_path)
                            /\ log[i].text = TheCmd.text
            /\ (diagnostic \/ ~ IsSome(TheCmd.image_path)) =>
                  \A i \in DOMAIN log : log[i].op \in {"send_message", "sleep"}

\* the second chat of a list received the image of the command
C7_Witness ==
    /\ Handling
    /\ ~ IsSome(TheCmd.chat_id)
    /\ TheCmd.subscriber_list = Some("ops")
    /\ TheCmd.image_path = Some(ImagePath)
    /\ Len(requests) = 2
    /\ mpc = "route"
    /\ Len(log) = 2
    /\ log[2].op = "send_photo" /\ log[2].res = "ok" /\ log[2].image = ImagePath

(***************************************************************************)
(* C8: a send_to_chat_with_retry whose attempts all end in a send error    *)
(* makes exactly MAX_RETRIES = 3 attempts, sleeps 500 ms after the first   *)
(* and 1000 ms after the second, and does nothing after the third.         *)
(***************************************************************************)
C8_TextRetrySchedule ==
    (\A i \in DOMAIN TextLog : TextLog[i].op = "send_message" => TextLog[i].res = "err") =>
        /\ Len(TextLog) <= 5
        /\ \A i \in DOMAIN TextLog :
              /\ TextLog[i].op = <<"send_message", "sleep", "send_message",
                                   "sleep", "send_message">>[i]
              /\ TextLog[i].ms = <<0, 500, 0, 1000, 0>>[i]
        /\ (mpc = "route" /\ TextLog # <<>>) => Len(TextLog) = 5
        /\ Len(TextLog) = 5 => (mpc = "route" /\ req.result = "failed")

\* a text delivery has failed three times with a send error
C8_Witness ==
    /\ requests # <<>>
    /\ req.image_path = None
    /\ mpc = "route"
    /\ Len(log) = 5
    /\ \A i \in {1, 3, 5} : log[i].op = "send_message" /\ log[i].res = "err"

C10_StopOnSuccess ==
    /\ \A i \in DOMAIN log :
          log[i].res = "ok" =>
              (i = Len(log) /\ mpc = "route" /\ req.result = "sent")
    /\ Cardinality({i \in SendIdx : log[i].res = "ok"}) <= 1

\* the second send_photo succeeded and the call returned
C10_Witness ==
    /\ mpc = "route"
    /\ Len(log) = 4
    /\ log[2].op = "send_photo" /\ log[2].res = "err"
    /\ log[4].op = "send_photo" /\ log[4].res = "ok"

(***************************************************************************)
(* Vocabulary of the image path.                                           *)
(***************************************************************************)
PhotoIdx == {i \in DOMAIN log : log[i].op = "send_photo"}
FailedPhotoIdx == {i \in PhotoIdx : log[i].res \in {"err", "timeout"}}
FileFound == log # <<>> /\ log[1].op = "exists" /\ log[1].res = "yes"
FileMissing == log # <<>> /\ log[1].op = "exists" /\ log[1].res = "no"

(***************************************************************************)
(* C11: when the image file exists, send_to_chat_with_retry is entered     *)
(* only after three failed send_photo attempts and is then entered at      *)
(* once, one single time, with the text                                    *)
(* "<text> (Image attachment failed: <path>)"; it makes up to MAX_RETRIES  *)
(* attempts of its own, so the call makes at most 3 + 3 attempts.          *)
(***************************************************************************)
C11_ImageExhaustionFallback ==
    FileFound =>
        /\ Cardinality(PhotoIdx) <= 3
        /\ Cardinality(TextIdx) <= 3
        /\ (TextIdx # {} \/ mpc \in {"txt_send", "txt_sleep"}) =>
              /\ Cardinality(FailedPhotoIdx) = 3
              /\ \A i \in PhotoIdx : i < TextStart
              /\ ttext = "hello (Image attachment failed: /tmp/a.png)"
        /\ Cardinality(FailedPhotoIdx) = 3 =>
              /\ mpc \in {"txt_send", "txt_sleep", "route"}
              /\ mpc = "route" => TextIdx # {}
        /\ \A i \in TextIdx :
              /\ log[i].text = "hello (Image attachment failed: /tmp/a.png)"
              /\ log[i].chat = req.chat
        /\ \A i \in TextIdx : log[i].res = "ok" => i = Len(log)

\* three failed images (errors and timeouts), then three failed texts
C11_Witness ==
    /\ FileFound
    /\ mpc = "route"
    /\ req.result = "failed"
    /\ Cardinality(PhotoIdx) = 3
    /\ Cardinality(TextIdx) = 3
    /\ \E i, j \in PhotoIdx : log[i].res = "err" /\ log[j].res = "timeout"

(***************************************************************************)
(* C12: when the image file does not exist, no send_photo is attempted and *)
(* send_to_chat_with_retry is entered at once, one single time, with the   *)
(* text of the command as it came.                                         *)
(***************************************************************************)
C12_MissingFileTextOnly ==
    FileMissing =>
        /\ PhotoIdx = {}
        /\ mpc \in {"txt_send", "txt_sleep", "route"}
        /\ mpc = "route" => TextIdx # {}
        /\ Cardinality(TextIdx) <= 3
        /\ \A i \in 2..Len(log) : log[i].op \in {"send_message", "sleep"}
        /\ \A i \in TextIdx : log[i].text = req.text /\ log[i].chat = req.chat
        /\ \A i \in TextIdx : log[i].res = "ok" => i = Len(log)
        /\ mpc # "route" => ttext = req.text

\* the file was missing and the text went out at the first attempt
C12_Witness ==
    /\ FileMissing
    /\ mpc = "route"
    /\ Len(log) = 2
    /\ log[2].op = "send_message" /\ log[2].res = "ok" /\ log[2].text = "hello"

(***************************************************************************)
(* C13: when the image file does not exist, the delivery degrades to a     *)
(* text with the augmented message (original text and image path), without *)
(* any image attempt.                                                      *)
(***************************************************************************)
C13_MissingFileAugmented ==
    FileMissing =>
        /\ PhotoIdx = {}
        /\ \A i \in TextIdx : log[i].text = "hello (Image attachment failed: /tmp/a.png)"

\* C13 as the code has it: when the image file does not exist, the delivery
\* degrades to a text with the original message, not augmented and without
\* the image path, and makes no image attempt
C13_MissingFileNotAugmented ==
    FileMissing =>
        /\ PhotoIdx = {}
        /\ attempt <= Cardinality(TextIdx)
        /\ \A i \in TextIdx :
              /\ log[i].text = "hello"
              /\ log[i].text # "hello (Image attachment failed: /tmp/a.png)"
              /\ log[i].image = ""

\* the file was missing and three texts failed
C13_Witness ==
    /\ FileMissing
    /\ mpc = "route"
    /\ req.result = "failed"
    /\ Cardinality(TextIdx) = 3

(***************************************************************************)
(* Vocabulary of the event loop.                                           *)
(***************************************************************************)
\* this step takes the first event out of the channel
Dequeues == chan # <<>> /\ chan' = Tail(chan)
DequeuesBatch == Dequeues /\ Head(chan).type = "Zmq"
Idle == mpc = "recv" /\ cmd = None /\ todo = <<>> /\ requests = <<>> /\ log = <<>>

(***************************************************************************)
(* C14: a batch of fewer than 2 frames, or whose frame 1 is not UTF-8, is  *)
(* not JSON, is not an array of at least 3 elements, or whose element 2    *)
(* has no text field, is dropped: the step that dequeues it leaves main in *)
(* the loop with no command, no delivery call and no send; and a delivery  *)
(* that has used up its attempts returns, after which main is back at      *)
(* rx.recv() with the channel untouched.                                   *)
(***************************************************************************)
C14_IsDropped(frames) ==
    \/ Len(frames) < 2
    \/ ~ frames[2].utf8
    \/ ~ frames[2].parses
    \/ frames[2].json.t # "array"
    \/ Len(frames[2].json.elems) < 3
    \/ /\ frames[2].json.elems[3].t = "object"
       /\ "text" \notin DOMAIN frames[2].json.elems[3].fields

C14_DecodeFailuresAreLocal ==
    [][ /\ (DequeuesBatch /\ C14_IsDropped(Head(chan).frames)) =>
              /\ mpc = "recv" /\ mpc' = "recv"
              /\ cmd' = None /\ todo' = <<>> /\ requests' = <<>> /\ log' = <<>>
        /\ (mpc = "txt_send" /\ attempt = MAX_RETRIES - 1 /\ log' # log) =>
              /\ mpc' = "route"
              /\ chan' = chan
        /\ (mpc = "route" /\ todo = <<>>) =>
              /\ mpc' = "recv"
              /\ chan' = chan
              /\ cmd' = None /\ requests' = <<>> /\ log' = <<>>
      ]_vars

\* the batch after one whose frame 1 is not UTF-8 was delivered
C14_Witness ==
    /\ chan = <<>>
    /\ Handling
    /\ TheCmd.chat_id = Some(2)
    /\ mpc = "route"
    /\ Len(log) = 1
    /\ log[1].op = "send_message" /\ log[1].res = "ok"
    /\ log[1].chat = 2 /\ log[1].text = "next"

(***************************************************************************)
(* C15: a batch of at least 2 frames whose frame 1 is a JSON array of at   *)
(* least 3 elements with a command object as element 2 is decoded: the     *)
(* command has the fields of element 2, absent (or null) optional fields   *)
(* are None, and nothing else of the batch has a say.                      *)
(***************************************************************************)
C15_OptField(o, name, type) ==
    name \in DOMAIN o.fields => o.fields[name].t \in {"null", type}

C15_IsCommand(frames) ==
    /\ Len(frames) >= 2
    /\ frames[2].utf8
    /\ frames[2].parses
    /\ frames[2].json.t = "array"
    /\ Len(frames[2].json.elems) >= 3
    /\ frames[2].json.elems[3].t = "object"
    /\ "text" \in DOMAIN frames[2].json.elems[3].fields
    /\ frames[2].json.elems[3].fields["text"].t = "string"
    /\ C15_OptField(frames[2].json.elems[3], "chat_id", "number")
    /\ C15_OptField(frames[2].json.elems[3], "subscriber_list", "string")
    /\ C15_OptField(frames[2].json.elems[3], "image_path", "string")

C15_Expected(o) ==
    [chat_id |->
        IF "chat_id" \in DOMAIN o.fields /\ o.fields["chat_id"].t = "number"
        THEN <<o.fields["chat_id"].n>> ELSE <<>>,
     subscriber_list |->
        IF "subscriber_list" \in DOMAIN o.fields /\ o.fields["subscriber_list"].t = "string"
        THEN <<o.fields["subscriber_list"].s>> ELSE <<>>,
     text |-> o.fields["text"].s,
     image_path |->
        IF "image_path" \in DOMAIN o.fields /\ o.fields["image_path"].t = "string"
        THEN <<o.fields["image_path"].s>> ELSE <<>>]

C15_DecodeSuccess ==
    [][ (DequeuesBatch /\ C15_IsCommand(Head(chan).frames)) =>
            /\ cmd' = <<C15_Expected(Head(chan).frames[2].json.elems[3])>>
            /\ mpc' = "route"
      ]_vars

\* a command with only a text, in a batch of three frames with a frame 0
\* that is not UTF-8 and an array of four elements, was decoded
C15_Witness ==
    /\ chan = <<Zmq(FollowUp(8))>>
    /\ mpc = "route"
    /\ cmd = <<[chat_id |-> <<>>, subscriber_list |-> <<>>,
                text |-> "hello", image_path |-> <<>>]>>

(***************************************************************************)
(* C16: the channel is a queue: events are added behind the queued ones    *)
(* and taken from the front, and one is taken only when main is idle, that *)
(* is when everything the event before caused is over; the command being   *)
(* handled is the one of the batch that was taken, and every send is one   *)
(* of that command.                                                        *)
(***************************************************************************)
C16_FifoDispatch ==
    [][ /\ chan' # chan =>
              \/ Dequeues /\ Idle
              \/ Len(chan') = Len(chan) + 1 /\ SubSeq(chan', 1, Len(chan)) = chan
        /\ DequeuesBatch =>
              IF Len(Head(chan).frames) < 2
              THEN cmd' = None
              ELSE /\ IsSome(cmd')
                   /\ cmd'[1].text = Head(chan).frames[2].json.elems[3].fields["text"].s
        /\ (log' # log /\ log' # <<>>) =>
              /\ Handling /\ cmd' = cmd /\ chan' = chan
              /\ IsSend(log'[Len(log')]) =>
                    log'[Len(log')].text \in
                        {TheCmd.text,
                         TheCmd.text \o " (Image attachment failed: /tmp/a.png)"}
      ]_vars

\* "hello" is in its third attempt while the batch of "alert" waits
C16_Witness ==
    /\ Handling
    /\ TheCmd.text = "hello"
    /\ Cardinality(TextIdx) = 2
    /\ mpc = "txt_send"
    /\ chan # <<>>
    /\ Head(chan).type = "Zmq"
    /\ Len(Head(chan).frames) = 2
    /\ Head(chan).frames[2].json.elems[3].fields["text"].s = "alert"

(***************************************************************************)
(* C17: truncate_str(s, max_chars) is the longest prefix of s of at most   *)
(* max_chars characters, made of whole characters; it is s when s has at   *)
(* most max_chars characters and empty when max_chars is 0; truncating the *)
(* result again with the same limit changes nothing.                       *)
(***************************************************************************)
C17_TruncatePrefix ==
    /\ Len(trunc.out) >= 1 =>
          /\ trunc.out[1] =
                Utf8(SubSeq(trunc.chars, 1,
                            IF Len(trunc.chars) <= trunc.max_chars
                            THEN Len(trunc.chars) ELSE trunc.max_chars))
          /\ Len(trunc.chars) <= trunc.max_chars => trunc.out[1] = trunc.s
          /\ trunc.max_chars = 0 => trunc.out[1] = <<>>
    /\ Len(trunc.out) = 2 => trunc.out[2] = trunc.out[1]

\* U+00E9 U+1F600 'a' cut to two characters, twice
C17_Witness ==
    /\ trunc.chars = <<<<195, 169>>, <<240, 159, 152, 128>>, <<97>>>>
    /\ trunc.max_chars = 2
    /\ trunc.out = <<<<195, 169, 240, 159, 152, 128>>, <<195, 169, 240, 159, 152, 128>>>>

(***************************************************************************)
(* C18: a poll that times out with no socket ready resets the counter of   *)
(* consecutive errors to zero: right after such a poll the counter is 0.   *)
(***************************************************************************)
C18_TimeoutResetsCounter ==
    (lpc = "inner" /\ last_poll = "timeout") => consecutive_errors = 0

(***************************************************************************)
(* C19: the counter of consecutive errors stays within 0..10; at 10 the    *)
(* listener polls and receives no more; with the flag unset it then tears  *)
(* the socket down, sleeps once and is back at the top of the outer loop,  *)
(* and the polling loop it enters next starts with the counter at 0.       *)
(***************************************************************************)
C19_ErrorCeiling ==
    [][ /\ consecutive_errors \in 0..10 /\ consecutive_errors' \in 0..10
        /\ (lpc = "inner" /\ consecutive_errors = 10) =>
              /\ lpc' \in {"inner", "after_inner"}
              /\ UNCHANGED <<last_poll, lframes, consecutive_errors>>
        /\ (lpc = "after_inner" /\ ~ shutdown_flag /\ lpc' # lpc) =>
              (lpc' = "reconnect_sleep" /\ consecutive_errors = 10)
        /\ (lpc = "reconnect_sleep" /\ lpc' # lpc) => lpc' = "outer"
        /\ (lpc = "outer" /\ lpc' = "inner") =>
              (consecutive_errors' = 0 /\ last_poll' = "none")
      ]_vars

\* ten errors: the socket is being torn down
C19_Witness ==
    /\ lpc = "reconnect_sleep"
    /\ consecutive_errors = 10
    /\ ~ shutdown_flag

(***************************************************************************)
(* C20: the listener thread ends only when it has read the flag as set or  *)
(* when a publish failed because the receiver is gone; a setup failure     *)
(* leads to the 5 s sleep and back to the top of the outer loop with the   *)
(* counter untouched, and a poll or receive error leaves the listener in   *)
(* its polling loop.                                                       *)
(***************************************************************************)
C20_OnlyShutdownStopsListener ==
    [][ /\ (lpc' = "stopped" /\ lpc # "stopped") =>
              (shutdown_flag \/ (lpc = "publish" /\ mpc = "done"))
        /\ (lpc = "outer" /\ lpc' \notin {"outer", "inner", "stopped"}) =>
              (lpc' = "setup_sleep" /\ consecutive_errors' = consecutive_errors)
        /\ (lpc = "outer" /\ lpc' = "stopped") => shutdown_flag
        /\ (lpc = "setup_sleep" /\ lpc' # lpc) =>
              (lpc' = "outer" /\ consecutive_errors' = consecutive_errors)
        /\ (lpc = "inner" /\ consecutive_errors' = consecutive_errors + 1) =>
              (lpc' = "inner" /\ last_poll' \in {"recv_err", "poll_err"})
      ]_vars

\* after ten errors and a teardown the setup fails: the listener sleeps on
C20_Witness ==
    /\ lpc = "setup_sleep"
    /\ consecutive_errors = 10
    /\ ~ shutdown_flag

(***************************************************************************)
(* C21: a listener that reads the flag as set, at the top of the outer     *)
(* loop or in the condition of the polling loop, ends: from there it makes *)
(* no connect, poll, receive or publish and no sleep; the flag read after  *)
(* the polling loop breaks the outer loop before the teardown and its 5 s  *)
(* sleep; a stopped listener does nothing more.                            *)
(***************************************************************************)
C21_StopFlagStopsListener ==
    [][ /\ (shutdown_flag /\ lpc \in {"outer", "inner", "after_inner"}) =>
              UNCHANGED <<consecutive_errors, lframes, last_poll>>
        /\ (shutdown_flag /\ lpc = "outer" /\ lpc' # lpc) => lpc' = "stopped"
        /\ (shutdown_flag /\ lpc = "inner" /\ lpc' # lpc) => lpc' = "after_inner"
        /\ (shutdown_flag /\ lpc = "after_inner" /\ lpc' # lpc) => lpc' = "stopped"
        /\ (shutdown_flag /\ lpc \in {"outer", "inner", "after_inner"}
              /\ chan' # chan /\ ~ Dequeues) =>
              chan'[Len(chan')].type # "Zmq"
        /\ lpc = "stopped" => UNCHANGED listenerVars
      ]_vars

\* the listener polled, then read the flag in the condition of its polling
\* loop and ended
C21_Witness ==
    /\ lpc = "stopped"
    /\ shutdown_flag
    /\ last_poll = "timeout"
    /\ consecutive_errors < max_consecutive_errors

(***************************************************************************)
(* C22: the flag is written once, from false to true, by main after its    *)
(* event loop has ended, and never goes back: whenever the flag is set the *)
(* loop has ended, the only step that changes the flag is main's store,    *)
(* and that step is none of the listener.                                  *)
(***************************************************************************)
C22_FlagWrittenOnceByMain ==
    [][ /\ shutdown_flag => (LoopExited /\ shutdown_flag')
        /\ shutdown_flag' => LoopExited'
        /\ shutdown_flag' # shutdown_flag =>
              /\ ~ shutdown_flag /\ shutdown_flag'
              /\ mpc = "exited" /\ mpc' = "join"
              /\ UNCHANGED <<listenerVars, cpc, chan>>
      ]_vars

\* the flag is set while the listener is still in its polling loop
C22_Witness ==
    /\ shutdown_flag
    /\ mpc = "join"
    /\ lpc = "inner"
    /\ cpc = "done"

(***************************************************************************)
(* C23: the channel never holds more events than its capacity; a listener  *)
(* that publishes into a full channel waits, keeping its batch; a batch    *)
(* that was received goes into the channel once, behind the queued events, *)
(* before the listener receives again, unless the receiver is gone, and    *)
(* then the listener ends; the counter of consecutive errors is untouched  *)
(* by the receive and goes to 0 in the step that enqueues the batch.       *)
(***************************************************************************)
C23_BoundedChannelNoLoss ==
    [][ /\ Len(chan) <= ChannelCapacity /\ Len(chan') <= ChannelCapacity
        /\ (lpc = "inner" /\ lpc' = "publish") =>
              /\ lframes' \in RecvFrames
              /\ last_poll' = "received"
              /\ UNCHANGED <<chan, consecutive_errors>>
        /\ (lpc = "publish" /\ Len(chan) = ChannelCapacity /\ mpc # "done") =>
              UNCHANGED <<lpc, lframes, consecutive_errors>>
        /\ (lpc = "publish" /\ lpc' = lpc) =>
              /\ UNCHANGED <<lframes, consecutive_errors>>
              /\ chan' # chan => (Dequeues \/ chan' = Append(chan, Shutdown))
        /\ (lpc = "publish" /\ lpc' # lpc) =>
              \/ /\ chan' = Append(chan, Zmq(lframes))
                 /\ lpc' = "inner"
                 /\ consecutive_errors' = 0
              \/ /\ mpc = "done"
                 /\ lpc' = "stopped"
                 /\ UNCHANGED <<chan, consecutive_errors>>
        /\ (Len(chan') = Len(chan) + 1 /\ chan'[Len(chan')].type = "Zmq") =>
              (lpc = "publish" /\ lpc' = "inner")
      ]_vars

\* the listener waits with the batch of "alert" for room in a full channel
C23_Witness ==
    /\ lpc = "publish"
    /\ Len(chan) = ChannelCapacity
    /\ \A i \in DOMAIN chan : chan[i].type = "Zmq"
    /\ Len(lframes) = 2
    /\ consecutive_errors > 0
    /\ mpc = "txt_sleep"

(***************************************************************************)
(* C24: the Shutdown event is put behind the queued batches and posting it *)
(* changes nothing of what main is doing; the event loop ends only when    *)
(* main, idle, takes the Shutdown event from the front of the channel;     *)
(* the handling of a command ends only when process_zmq_message has made   *)
(* every one of its delivery calls and each has returned; the flag is set  *)
(* after the loop has ended.                                               *)
(***************************************************************************)
C24_Posted == \E i \in DOMAIN chan : chan[i].type = "Shutdown"

C24_ShutdownNotPreemptive ==
    [][ /\ (~ C24_Posted /\ C24_Posted') =>
              /\ chan' = Append(chan, Shutdown)
              /\ UNCHANGED <<mpc, deliveryVars, shutdown_flag>>
        /\ (C24_Posted /\ chan' # chan) => (Dequeues \/ IsPrefix(chan, chan'))
        /\ (~ LoopExited /\ LoopExited') =>
              /\ Idle
              /\ Dequeues
              /\ Head(chan).type = "Shutdown"
              /\ UNCHANGED deliveryVars
        /\ (Handling /\ mpc # "recv" /\ mpc' = "recv") =>
              /\ mpc = "route" /\ todo = <<>>
              /\ Len(requests) = Len(process_zmq_message(TheCmd, settings))
              /\ \A i \in DOMAIN requests : requests[i].result \in {"sent", "failed"}
        /\ (Handling /\ mpc # "recv") => ~ LoopExited'
        /\ (shutdown_flag' /\ ~ shutdown_flag) => mpc = "exited"
      ]_vars

\* the Shutdown event waits at the front of the channel while the third
\* attempt of a text delivery is about to be made
C24_Witness ==
    /\ chan # <<>>
    /\ Head(chan).type = "Shutdown"
    /\ Handling
    /\ mpc = "txt_send"
    /\ attempt = MAX_RETRIES - 1
    /\ ~ shutdown_flag

====
